---- MODULE Spec2Model ----
(***************************************************************************)
(* A model of the `transaction` combinator algebra (KeenS/transaction-rs). *)
(*                                                                         *)
(* A node (a value implementing `Transaction`) is a record with a `kind`   *)
(* field and the fields of the Rust struct it models.  `run(tx, st)` is    *)
(* `Transaction::run(&self, ctx)`: it threads st = [ctx, trace] through    *)
(* the tree and returns [r |-> Result, st |-> state after the call].       *)
(* `ctx` is the context (two transactional variables x and y, as in the    *)
(* stm example); `trace` is the sequence of invocations of user-supplied   *)
(* closures, in the order they happen.                                     *)
(***************************************************************************)
EXTENDS Integers, Sequences, FiniteSets, TLC

\* Bounds of the model.
MaxVec == 3      \* longest Vec handed to join_vec / join_all
MaxN == 3        \* largest count handed to retry / repeat
MaxRuns == 2     \* how often the runner calls run on one node
MaxX0 == 2       \* largest value of x in a context the runner supplies
MaxS0 == 1       \* largest initial state handed to loop_fn
MaxLim == 3      \* largest limit a loop body counts to
MaxIter == 6     \* iterations of loop_fn followed before the run is given up as not returning

VARIABLES
    node,      \* the node the user code has built
    phase,     \* "idle": nothing built; "built"; "ran": a run has returned; "hung": a run does not return
    ctx,       \* the context as the latest run left it
    ctx0,      \* the context the runner supplied to the latest run
    trace,     \* closure invocations since the construction began
    runStart,  \* Len(trace) when the latest run began
    ret,       \* what the latest run returned
    runs,      \* number of runs of the node so far
    prev,      \* the run before the latest: its context, result, final context, invocations
    given,     \* the value user code handed over where a computation is expected
    call       \* the method call user code wrote, and whether it type-checks

vars == <<node, phase, ctx, ctx0, trace, runStart, ret, runs, prev, given, call>>

---------------------------------------------------------------------------
\* Result<T, E>
Ok(v) == [ok |-> TRUE, v |-> v]
Err(e) == [ok |-> FALSE, v |-> e]

\* Loop<S, T>
Continue(s) == [loop |-> "Continue", val |-> s]
Break(t) == [loop |-> "Break", val |-> t]

NoNode == [kind |-> "none"]
NoResult == [none |-> TRUE]

\* One invocation of the user closure c with argument arg, made while the
\* context was cx.
Call(c, arg, cx) == [fn |-> c.fn, id |-> c.id, arg |-> arg, at |-> cx]

---------------------------------------------------------------------------
\* User-supplied closures F: Fn(&mut Ctx) -> Result<T, E>, the closures handed
\* to with_ctx.  c.fn names the body, c.id tells instances apart.
CtxFn(c, cx) ==
    CASE c.fn = "inc_x" ->      \* let xv = read(x); write(x, xv + 1); Ok(xv)
           [r |-> Ok(cx.x), ctx |-> [cx EXCEPT !.x = @ + 1]]
      [] c.fn = "inc_y" ->
           [r |-> Ok(cx.y), ctx |-> [cx EXCEPT !.y = @ + 1]]
      [] c.fn = "read_xy" ->    \* Ok(read(x) + read(y))
           [r |-> Ok(cx.x + cx.y), ctx |-> cx]
      [] c.fn = "tag_ok" ->     \* writes, then succeeds with its own tag
           [r |-> Ok(c.id), ctx |-> [cx EXCEPT !.x = @ + 1]]
      [] c.fn = "tag_err" ->    \* writes, then fails with its own tag
           [r |-> Err(c.id), ctx |-> [cx EXCEPT !.x = @ + 1]]
      [] c.fn = "ok_when_x2" -> \* succeeds once x has reached 2, else writes and fails
           IF cx.x >= 2
           THEN [r |-> Ok(c.id), ctx |-> cx]
           ELSE [r |-> Err(c.id), ctx |-> [cx EXCEPT !.x = @ + 1]]
      [] c.fn = "ctr_body" ->   \* Continue while the counter x < lim, then Break(counter)
           IF cx.x < c.lim
           THEN [r |-> Ok(Continue(c.id)), ctx |-> [cx EXCEPT !.x = @ + 1]]
           ELSE [r |-> Ok(Break(cx.x)), ctx |-> cx]
      [] c.fn = "state_body" -> \* the loop state is the counter; fails at state c.bad
           IF c.id = c.bad
           THEN [r |-> Err(c.id), ctx |-> [cx EXCEPT !.y = @ + 1]]
           ELSE IF c.id < c.lim
           THEN [r |-> Ok(Continue(c.id + 1)), ctx |-> [cx EXCEPT !.y = @ + 1]]
           ELSE [r |-> Ok(Break(c.id)), ctx |-> [cx EXCEPT !.y = @ + 1]]
      [] c.fn = "forever_body" -> \* always Continue
           [r |-> Ok(Continue(c.id)), ctx |-> cx]

\* User-supplied closures from a value to a value (the F of map, map_err,
\* abort and recover).
ValFn(c, v) ==
    CASE c.fn = "add" -> v + c.id     \* |v| v + id
      [] c.fn = "always" -> c.id      \* |_| id

\* User-supplied closures that return a Result (the F of try_abort and
\* try_recover, and with argument 0 the F: Fn() -> Result<T, E> of lazy).
ResFn(c, v) ==
    CASE c.fn = "ok_add" -> Ok(v + c.id)      \* |v| Ok(v + id)
      [] c.fn = "err_add" -> Err(v + c.id)    \* |v| Err(v + id)
      [] c.fn = "ok_if_odd" ->                \* |v| if v is odd { Ok(v) } else { Err(v + id) }
           IF v % 2 = 1 THEN Ok(v) ELSE Err(v + c.id)

---------------------------------------------------------------------------
\* Leaf constructors.
ok(t) == [kind |-> "ok", ok |-> t]
err(e) == [kind |-> "err", err |-> e]
result(r) == [kind |-> "result", r |-> r]
with_ctx(f) == [kind |-> "with_ctx", f |-> f]

RECURSIVE into_transaction(_)

\* Transaction::join (the method): Join { tx1: self, tx2: b.into_transaction() }
Transaction_join(self, b) ==
    [node |-> [kind |-> "join", tx1 |-> self, tx2 |-> into_transaction(b)],
     calls |-> <<>>]

\* Transaction::join3 (the method)
Transaction_join3(self, b, c) ==
    [node |-> [kind |-> "join3", tx1 |-> self, tx2 |-> into_transaction(b),
               tx3 |-> into_transaction(c)],
     calls |-> <<>>]

\* Transaction::join4 (the method)
Transaction_join4(self, b, c, d) ==
    [node |-> [kind |-> "join4", tx1 |-> self, tx2 |-> into_transaction(b),
               tx3 |-> into_transaction(c), tx4 |-> into_transaction(d)],
     calls |-> <<>>]

\* A Rust tuple of values that convert to computations.
Tuple(s) == [tuple |-> s]

\* Mutant: the components of a tuple are joined in the reverse order.
into_transaction_reversed(a) ==
    IF "kind" \in DOMAIN a THEN a
    ELSE IF "tuple" \in DOMAIN a
    THEN LET t == a.tuple
         IN  CASE Len(t) = 2 ->
                    Transaction_join(into_transaction(t[2]), into_transaction(t[1])).node
               [] Len(t) = 3 ->
                    Transaction_join3(into_transaction(t[3]), into_transaction(t[2]),
                                      into_transaction(t[1])).node
               [] Len(t) = 4 ->
                    Transaction_join4(into_transaction(t[4]), into_transaction(t[3]),
                                      into_transaction(t[2]), into_transaction(t[1])).node
    ELSE result(a)

\* IntoTransaction::into_transaction: a Transaction is itself; a tuple
\* (tx1, tx2) is tx1.into_transaction().join(tx2.into_transaction()), and
\* likewise join3 and join4 for three and four components; a bare Result r
\* is result(r).
into_transaction(a) ==
    IF "kind" \in DOMAIN a THEN a
    ELSE IF "tuple" \in DOMAIN a
    THEN LET t == a.tuple
         IN  CASE Len(t) = 2 ->
                    Transaction_join(into_transaction(t[1]), into_transaction(t[2])).node
               [] Len(t) = 3 ->
                    Transaction_join3(into_transaction(t[1]), into_transaction(t[2]),
                                      into_transaction(t[3])).node
               [] Len(t) = 4 ->
                    Transaction_join4(into_transaction(t[1]), into_transaction(t[2]),
                                      into_transaction(t[3]), into_transaction(t[4])).node
    ELSE result(a)

\* User-supplied closures that return a computation (F: Fn(A) -> Tx).
\*   const:   |_| c.tx
\*   tab:     |i| c.tab[i]          (one computation per index)
\*   leaf_of: |v| with_ctx(c.body tagged v)
\*   loop closures: |s| with_ctx(body for state s)
Apply(c, arg) ==
    CASE c.fn = "const" -> c.tx
      [] c.fn = "tab" -> c.tab[arg + 1]
      [] c.fn = "leaf_of" -> with_ctx([fn |-> c.body, id |-> arg])
      [] c.fn = "step_ctx" -> with_ctx([fn |-> "ctr_body", id |-> arg, lim |-> c.lim])
      [] c.fn = "step_state" ->
           with_ctx([fn |-> "state_body", id |-> arg, lim |-> c.lim, bad |-> c.bad])
      [] c.fn = "forever" -> with_ctx([fn |-> "forever_body", id |-> arg])

\* f(arg).into_transaction() inside a run: the call is recorded, the node built.
Invoke(f, arg, st) ==
    [tx |-> into_transaction(Apply(f, arg)),
     st |-> [st EXCEPT !.trace = Append(@, Call(f, arg, st.ctx))]]

---------------------------------------------------------------------------
RECURSIVE run(_, _)

TxOk_run(tx, st) == [r |-> Ok(tx.ok), st |-> st]

TxErr_run(tx, st) == [r |-> Err(tx.err), st |-> st]

TxResult_run(tx, st) == [r |-> tx.r, st |-> st]

WithCtx_run(tx, st) ==
    LET o == CtxFn(tx.f, st.ctx)
    IN  [r |-> o.r,
         st |-> [ctx |-> o.ctx, trace |-> Append(st.trace, Call(tx.f, 0, st.ctx))]]

\* join(a, b) / Transaction::join
join(a, b) ==
    [node |-> [kind |-> "join", tx1 |-> into_transaction(a), tx2 |-> into_transaction(b)],
     calls |-> <<>>]

\* Mutant: the items of the two children end up in the wrong order.
Join_run_swapped(tx, st) ==
    LET a == run(tx.tx1, st)
        b == run(tx.tx2, a.st)
    IN  [r |-> IF a.r.ok /\ b.r.ok THEN Ok(<<b.r.v, a.r.v>>)
               ELSE IF ~a.r.ok THEN a.r
               ELSE b.r,
         st |-> b.st]

\* match (tx1.run(ctx), tx2.run(ctx)): the tuple is evaluated left to right,
\* then the first matching pattern decides.
Join_run(tx, st) ==
    LET a == run(tx.tx1, st)
        b == run(tx.tx2, a.st)
    IN  [r |-> IF a.r.ok /\ b.r.ok THEN Ok(<<a.r.v, b.r.v>>)
               ELSE IF ~a.r.ok THEN a.r
               ELSE b.r,
         st |-> b.st]

\* join3(a, b, c) / Transaction::join3
join3(a, b, c) ==
    [node |-> [kind |-> "join3", tx1 |-> into_transaction(a), tx2 |-> into_transaction(b),
               tx3 |-> into_transaction(c)],
     calls |-> <<>>]

\* Mutant: the patterns are tried from the right, so the last error wins.
Join3_run_lasterr(tx, st) ==
    LET a == run(tx.tx1, st)
        b == run(tx.tx2, a.st)
        c == run(tx.tx3, b.st)
    IN  [r |-> IF a.r.ok /\ b.r.ok /\ c.r.ok THEN Ok(<<a.r.v, b.r.v, c.r.v>>)
               ELSE IF ~c.r.ok THEN c.r
               ELSE IF ~b.r.ok THEN b.r
               ELSE a.r,
         st |-> c.st]

Join3_run(tx, st) ==
    LET a == run(tx.tx1, st)
        b == run(tx.tx2, a.st)
        c == run(tx.tx3, b.st)
    IN  [r |-> IF a.r.ok /\ b.r.ok /\ c.r.ok THEN Ok(<<a.r.v, b.r.v, c.r.v>>)
               ELSE IF ~a.r.ok THEN a.r
               ELSE IF ~b.r.ok THEN b.r
               ELSE c.r,
         st |-> c.st]

\* join4(a, b, c, d) / Transaction::join4
join4(a, b, c, d) ==
    [node |-> [kind |-> "join4", tx1 |-> into_transaction(a), tx2 |-> into_transaction(b),
               tx3 |-> into_transaction(c), tx4 |-> into_transaction(d)],
     calls |-> <<>>]

\* Mutant: a child is run only if the children before it succeeded.
Join4_run_shortcircuit(tx, st) ==
    LET a == run(tx.tx1, st)
        b == IF a.r.ok THEN run(tx.tx2, a.st) ELSE a
        c == IF b.r.ok THEN run(tx.tx3, b.st) ELSE b
        d == IF c.r.ok THEN run(tx.tx4, c.st) ELSE c
    IN  [r |-> IF a.r.ok /\ b.r.ok /\ c.r.ok /\ d.r.ok
               THEN Ok(<<a.r.v, b.r.v, c.r.v, d.r.v>>)
               ELSE d.r,
         st |-> d.st]

Join4_run(tx, st) ==
    LET a == run(tx.tx1, st)
        b == run(tx.tx2, a.st)
        c == run(tx.tx3, b.st)
        d == run(tx.tx4, c.st)
    IN  [r |-> IF a.r.ok /\ b.r.ok /\ c.r.ok /\ d.r.ok
               THEN Ok(<<a.r.v, b.r.v, c.r.v, d.r.v>>)
               ELSE IF ~a.r.ok THEN a.r
               ELSE IF ~b.r.ok THEN b.r
               ELSE IF ~c.r.ok THEN c.r
               ELSE d.r,
         st |-> d.st]

\* join_vec(vec)
join_vec(vec) ==
    [node |-> [kind |-> "join_vec", vec |-> [i \in 1 .. Len(vec) |-> into_transaction(vec[i])]],
     calls |-> <<>>]

\* join_all(i)
join_all(vec) ==
    [node |-> [kind |-> "join_all", vec |-> [i \in 1 .. Len(vec) |-> into_transaction(vec[i])]],
     calls |-> <<>>]

\* vec.iter().map(|tx| tx.run(ctx)).collect::<Result<Vec<_>, _>>(): the
\* iterator is lazy, and collecting into a Result takes elements until the
\* first Err, which it returns; the elements after it are never pulled from
\* the map, so their run is never called.
RECURSIVE CollectResult(_, _, _, _)
CollectResult(vec, i, acc, st) ==
    IF i > Len(vec) THEN [r |-> Ok(acc), st |-> st]
    ELSE LET o == run(vec[i], st)
         IN  IF o.r.ok THEN CollectResult(vec, i + 1, Append(acc, o.r.v), o.st)
             ELSE [r |-> o.r, st |-> o.st]

JoinVec_run(tx, st) == CollectResult(tx.vec, 1, <<>>, st)

JoinAll_run(tx, st) == CollectResult(tx.vec, 1, <<>>, st)

\* and_then(a, f) / Transaction::and_then
and_then(a, f) ==
    [node |-> [kind |-> "and_then", tx |-> into_transaction(a), f |-> f],
     calls |-> <<>>]

\* Mutant: f is called whatever tx returned (as `then` does).
AndThen_run_always(tx, st) ==
    LET a == run(tx.tx, st)
        b == Invoke(tx.f, a.r.v, a.st)
    IN  run(b.tx, b.st)

\* Mutant: the computation f returns is run against the context as it was
\* before tx ran.
AndThen_run_stale(tx, st) ==
    LET a == run(tx.tx, st)
    IN  IF a.r.ok
        THEN LET b == Invoke(tx.f, a.r.v, a.st)
                 o == run(b.tx, [b.st EXCEPT !.ctx = st.ctx])
             IN  o
        ELSE a

\* tx.run(ctx).and_then(|item| f(item).into_transaction().run(ctx))
AndThen_run(tx, st) ==
    LET a == run(tx.tx, st)
    IN  IF a.r.ok
        THEN LET b == Invoke(tx.f, a.r.v, a.st)
             IN  run(b.tx, b.st)
        ELSE a

\* retry(n, f)
retry(n, f) ==
    [node |-> [kind |-> "retry", n |-> n, f |-> f],
     calls |-> <<>>]

\* Mutant: only the latest error is kept.
RECURSIVE RetryLoop_lastonly(_, _, _, _)
RetryLoop_lastonly(tx, i, errs, st) ==
    IF i >= tx.n THEN [r |-> Err(errs), st |-> st]
    ELSE LET c == Invoke(tx.f, i, st)
             o == run(c.tx, c.st)
         IN  IF o.r.ok THEN o
             ELSE RetryLoop_lastonly(tx, i + 1, <<o.r.v>>, o.st)

\* Mutant: a success does not end the loop; the remaining attempts are made
\* before the first success is returned.
RECURSIVE RetryLoop_exhaust(_, _, _, _)
RetryLoop_exhaust(tx, i, errs, st) ==
    IF i >= tx.n THEN [r |-> Err(errs), st |-> st]
    ELSE LET c == Invoke(tx.f, i, st)
             o == run(c.tx, c.st)
         IN  IF o.r.ok
             THEN [r |-> o.r, st |-> RetryLoop_exhaust(tx, i + 1, errs, o.st).st]
             ELSE RetryLoop_exhaust(tx, i + 1, Append(errs, o.r.v), o.st)

\* Mutant: the context changes of a failed attempt are undone before the
\* next attempt is made.
RECURSIVE RetryLoop_rollback(_, _, _, _)
RetryLoop_rollback(tx, i, errs, st) ==
    IF i >= tx.n THEN [r |-> Err(errs), st |-> st]
    ELSE LET c == Invoke(tx.f, i, st)
             o == run(c.tx, c.st)
         IN  IF o.r.ok THEN o
             ELSE RetryLoop_rollback(tx, i + 1, Append(errs, o.r.v),
                                     [o.st EXCEPT !.ctx = st.ctx])

\* for i in 0..*n { match f(i).into_transaction().run(ctx) { Ok(t) => return
\* Ok(t), Err(e) => ret.push(e) } } Err(ret): the loop from index i on, ret
\* being the errors pushed so far.
RECURSIVE RetryLoop(_, _, _, _)
RetryLoop(tx, i, errs, st) ==
    IF i >= tx.n THEN [r |-> Err(errs), st |-> st]
    ELSE LET c == Invoke(tx.f, i, st)
             o == run(c.tx, c.st)
         IN  IF o.r.ok THEN o
             ELSE RetryLoop(tx, i + 1, Append(errs, o.r.v), o.st)

\* Mutant: with no attempt to make, retry succeeds with an empty sequence as
\* repeat does.
Retry_run_emptyok(tx, st) ==
    IF tx.n = 0 THEN [r |-> Ok(<<>>), st |-> st] ELSE RetryLoop(tx, 0, <<>>, st)

Retry_run(tx, st) == RetryLoop(tx, 0, <<>>, st)

\* No context exists while user code builds a node.
NoCtx == [x |-> -1, y |-> -1]

\* loop_fn(initial_state, f): the constructor itself calls f(initial_state)
\* and stores the computation it returns in the field tx.
loop_fn(initial_state, f) ==
    [node |-> [kind |-> "loop_fn", tx |-> into_transaction(Apply(f, initial_state)), f |-> f],
     calls |-> <<Call(f, initial_state, NoCtx)>>]

\* Mutant: the computation of the next iteration is built before the result
\* of the latest one is looked at, so f is called once more after a failure.
RECURSIVE LoopIter_buildsfirst(_, _, _, _)
LoopIter_buildsfirst(tx, r, st, fuel) ==
    IF ~r.ok THEN [r |-> r, st |-> Invoke(tx.f, r.v, st).st]
    ELSE IF r.v.loop = "Break" THEN [r |-> Ok(r.v.val), st |-> st]
    ELSE IF fuel = 0 THEN [r |-> [hung |-> TRUE], st |-> st]
    ELSE LET c == Invoke(tx.f, r.v.val, st)
             o == run(c.tx, c.st)
         IN  LoopIter_buildsfirst(tx, o.r, o.st, fuel - 1)

\* Mutant: Continue(s) ends the loop as Break does.
LoopIter_continuereturns(tx, r, st, fuel) ==
    IF ~r.ok THEN [r |-> r, st |-> st]
    ELSE [r |-> Ok(r.v.val), st |-> st]

\* Mutant: on Continue the stored first computation is run again instead of
\* f(s).
RECURSIVE LoopIter_rerun(_, _, _, _)
LoopIter_rerun(tx, r, st, fuel) ==
    IF ~r.ok THEN [r |-> r, st |-> st]
    ELSE IF r.v.loop = "Break" THEN [r |-> Ok(r.v.val), st |-> st]
    ELSE IF fuel = 0 THEN [r |-> [hung |-> TRUE], st |-> st]
    ELSE LET o == run(tx.tx, st)
         IN  LoopIter_rerun(tx, o.r, o.st, fuel - 1)

\* loop { match ret { Break(t) => return Ok(t), Continue(s) => s };
\*        ret = f(s).into_transaction().run(ctx)? }
\* r is the Result of the latest iteration; fuel bounds the iterations
\* followed, and a loop that outlasts it has not returned.
RECURSIVE LoopIter(_, _, _, _)
LoopIter(tx, r, st, fuel) ==
    IF ~r.ok THEN [r |-> r, st |-> st]
    ELSE IF r.v.loop = "Break" THEN [r |-> Ok(r.v.val), st |-> st]
    ELSE IF fuel = 0 THEN [r |-> [hung |-> TRUE], st |-> st]
    ELSE LET c == Invoke(tx.f, r.v.val, st)
             o == run(c.tx, c.st)
         IN  LoopIter(tx, o.r, o.st, fuel - 1)

\* let mut ret = tx.run(ctx)?; then the loop
LoopFn_run(tx, st) ==
    LET o == run(tx.tx, st)
    IN  LoopIter(tx, o.r, o.st, MaxIter)

\* repeat(n, f)
repeat(n, f) ==
    [node |-> [kind |-> "repeat", n |-> n, f |-> f],
     calls |-> <<>>]

\* Mutant: a failing iteration is remembered but the loop goes on to the end.
RECURSIVE RepeatLoop_goeson(_, _, _, _)
RepeatLoop_goeson(tx, i, items, st) ==
    IF i >= tx.n THEN [r |-> Ok(items), st |-> st]
    ELSE LET c == Invoke(tx.f, i, st)
             o == run(c.tx, c.st)
             rest == RepeatLoop_goeson(tx, i + 1,
                                       IF o.r.ok THEN Append(items, o.r.v) ELSE items, o.st)
         IN  IF o.r.ok THEN rest ELSE [r |-> o.r, st |-> rest.st]

\* Mutant: each item is put in front of the ones collected so far.
RECURSIVE RepeatLoop_prepend(_, _, _, _)
RepeatLoop_prepend(tx, i, items, st) ==
    IF i >= tx.n THEN [r |-> Ok(items), st |-> st]
    ELSE LET c == Invoke(tx.f, i, st)
             o == run(c.tx, c.st)
         IN  IF o.r.ok THEN RepeatLoop_prepend(tx, i + 1, <<o.r.v>> \o items, o.st)
             ELSE o

\* for i in 0..*n { let t = f(i).into_transaction().run(ctx)?; ret.push(t) }
\* Ok(ret): the loop from index i on, ret being the items pushed so far.
RECURSIVE RepeatLoop(_, _, _, _)
RepeatLoop(tx, i, items, st) ==
    IF i >= tx.n THEN [r |-> Ok(items), st |-> st]
    ELSE LET c == Invoke(tx.f, i, st)
             o == run(c.tx, c.st)
         IN  IF o.r.ok THEN RepeatLoop(tx, i + 1, Append(items, o.r.v), o.st)
             ELSE o

Repeat_run(tx, st) == RepeatLoop(tx, 0, <<>>, st)

\* lazy(f)
lazy(f) == [kind |-> "lazy", f |-> f]

\* Mutant: the closure is handed a value read from the context, as the
\* closure of with_ctx is handed the context.
Lazy_run_readsctx(tx, st) ==
    [r |-> ResFn(tx.f, st.ctx.x),
     st |-> [st EXCEPT !.trace = Append(@, Call(tx.f, 0, st.ctx))]]

\* (self.f)()
Lazy_run(tx, st) ==
    [r |-> ResFn(tx.f, 0),
     st |-> [st EXCEPT !.trace = Append(@, Call(tx.f, 0, st.ctx))]]

\* map(a, f) / Transaction::map
map(a, f) ==
    [node |-> [kind |-> "map", tx |-> into_transaction(a), f |-> f],
     calls |-> <<>>]

\* Mutant: f is applied to whatever the wrapped computation returned.
Map_run_both(tx, st) ==
    LET a == run(tx.tx, st)
    IN  [r |-> [ok |-> a.r.ok, v |-> ValFn(tx.f, a.r.v)],
         st |-> [a.st EXCEPT !.trace = Append(@, Call(tx.f, a.r.v, a.st.ctx))]]

\* tx.run(ctx).map(f)
Map_run(tx, st) ==
    LET a == run(tx.tx, st)
    IN  IF a.r.ok
        THEN [r |-> Ok(ValFn(tx.f, a.r.v)),
              st |-> [a.st EXCEPT !.trace = Append(@, Call(tx.f, a.r.v, a.st.ctx))]]
        ELSE a

\* map_err(a, f) / Transaction::map_err
map_err(a, f) ==
    [node |-> [kind |-> "map_err", tx |-> into_transaction(a), f |-> f],
     calls |-> <<>>]

\* tx.run(ctx).map_err(f)
MapErr_run(tx, st) ==
    LET a == run(tx.tx, st)
    IN  IF a.r.ok THEN a
        ELSE [r |-> Err(ValFn(tx.f, a.r.v)),
              st |-> [a.st EXCEPT !.trace = Append(@, Call(tx.f, a.r.v, a.st.ctx))]]

\* or_else(a, f) / Transaction::or_else
or_else(a, f) ==
    [node |-> [kind |-> "or_else", tx |-> into_transaction(a), f |-> f],
     calls |-> <<>>]

\* Mutant: the fallback is run, but when it fails too the first error is kept.
OrElse_run_firsterr(tx, st) ==
    LET a == run(tx.tx, st)
    IN  IF a.r.ok THEN a
        ELSE LET b == Invoke(tx.f, a.r.v, a.st)
                 o == run(b.tx, b.st)
             IN  IF o.r.ok THEN o ELSE [r |-> a.r, st |-> o.st]

\* tx.run(ctx).or_else(|item| f(item).into_transaction().run(ctx))
OrElse_run(tx, st) ==
    LET a == run(tx.tx, st)
    IN  IF a.r.ok THEN a
        ELSE LET b == Invoke(tx.f, a.r.v, a.st)
             IN  run(b.tx, b.st)

\* then(a, f) / Transaction::then
then(a, f) ==
    [node |-> [kind |-> "then", tx |-> into_transaction(a), f |-> f],
     calls |-> <<>>]

\* User-supplied closures from a Result to a computation, the F of then:
\* |r| match r { Ok(_) => onOk, Err(_) => onErr }
ApplyResult(c, r) == IF r.ok THEN c.onOk ELSE c.onErr

\* Mutant: a failure of the wrapped computation is returned without calling f.
Then_run_onlyok(tx, st) ==
    LET a == run(tx.tx, st)
        b == into_transaction(ApplyResult(tx.f, a.r))
        called == [fn |-> tx.f.fn, id |-> tx.f.id, arg |-> a.r.v, at |-> a.st.ctx,
                   ok |-> a.r.ok]
    IN  IF a.r.ok THEN run(b, [a.st EXCEPT !.trace = Append(@, called)])
        ELSE a

\* f(tx.run(ctx)).into_transaction().run(ctx): f receives the whole Result.
Then_run(tx, st) ==
    LET a == run(tx.tx, st)
        b == into_transaction(ApplyResult(tx.f, a.r))
        called == [fn |-> tx.f.fn, id |-> tx.f.id, arg |-> a.r.v, at |-> a.st.ctx,
                   ok |-> a.r.ok]
    IN  run(b, [a.st EXCEPT !.trace = Append(@, called)])

\* abort(a, f) / Transaction::abort
abort(a, f) ==
    [node |-> [kind |-> "abort", tx |-> into_transaction(a), f |-> f],
     calls |-> <<>>]

\* Mutant: the value f makes of a success is returned as a success.
Abort_run_passok(tx, st) ==
    LET a == run(tx.tx, st)
    IN  IF a.r.ok
        THEN [r |-> Ok(ValFn(tx.f, a.r.v)),
              st |-> [a.st EXCEPT !.trace = Append(@, Call(tx.f, a.r.v, a.st.ctx))]]
        ELSE a

\* match tx.run(ctx) { Ok(r) => Err(f(r)), Err(e) => Err(e) }
Abort_run(tx, st) ==
    LET a == run(tx.tx, st)
    IN  IF a.r.ok
        THEN [r |-> Err(ValFn(tx.f, a.r.v)),
              st |-> [a.st EXCEPT !.trace = Append(@, Call(tx.f, a.r.v, a.st.ctx))]]
        ELSE a

\* try_abort(a, f) / Transaction::try_abort
try_abort(a, f) ==
    [node |-> [kind |-> "try_abort", tx |-> into_transaction(a), f |-> f],
     calls |-> <<>>]

\* Mutant: whatever f returns is turned into a failure, as abort does.
TryAbort_run_alwaysfails(tx, st) ==
    LET a == run(tx.tx, st)
    IN  IF a.r.ok
        THEN [r |-> Err(ResFn(tx.f, a.r.v).v),
              st |-> [a.st EXCEPT !.trace = Append(@, Call(tx.f, a.r.v, a.st.ctx))]]
        ELSE a

\* match tx.run(ctx) { Ok(r) => f(r), Err(e) => Err(e) }
TryAbort_run(tx, st) ==
    LET a == run(tx.tx, st)
    IN  IF a.r.ok
        THEN [r |-> ResFn(tx.f, a.r.v),
              st |-> [a.st EXCEPT !.trace = Append(@, Call(tx.f, a.r.v, a.st.ctx))]]
        ELSE a

\* recover(a, f) / Transaction::recover
recover(a, f) ==
    [node |-> [kind |-> "recover", tx |-> into_transaction(a), f |-> f],
     calls |-> <<>>]

\* Mutant: the value f makes of an error is returned as an error.
Recover_run_staysfailed(tx, st) ==
    LET a == run(tx.tx, st)
    IN  IF a.r.ok THEN a
        ELSE [r |-> Err(ValFn(tx.f, a.r.v)),
              st |-> [a.st EXCEPT !.trace = Append(@, Call(tx.f, a.r.v, a.st.ctx))]]

\* match tx.run(ctx) { r @ Ok(_) => r, Err(e) => Ok(f(e)) }
Recover_run(tx, st) ==
    LET a == run(tx.tx, st)
    IN  IF a.r.ok THEN a
        ELSE [r |-> Ok(ValFn(tx.f, a.r.v)),
              st |-> [a.st EXCEPT !.trace = Append(@, Call(tx.f, a.r.v, a.st.ctx))]]

\* try_recover(a, f) / Transaction::try_recover
try_recover(a, f) ==
    [node |-> [kind |-> "try_recover", tx |-> into_transaction(a), f |-> f],
     calls |-> <<>>]

\* Mutant: whatever f returns is turned into a success, as recover does.
TryRecover_run_alwaysok(tx, st) ==
    LET a == run(tx.tx, st)
    IN  IF a.r.ok THEN a
        ELSE [r |-> Ok(ResFn(tx.f, a.r.v).v),
              st |-> [a.st EXCEPT !.trace = Append(@, Call(tx.f, a.r.v, a.st.ctx))]]

\* match tx.run(ctx) { Ok(r) => Ok(r), Err(e) => f(e) }
TryRecover_run(tx, st) ==
    LET a == run(tx.tx, st)
    IN  IF a.r.ok THEN a
        ELSE [r |-> ResFn(tx.f, a.r.v),
              st |-> [a.st EXCEPT !.trace = Append(@, Call(tx.f, a.r.v, a.st.ctx))]]

\* Transaction::branch / branch3 / branch4: the builder holds the computation.
branch(tx) == [builder |-> "branch", tx |-> tx]
branch3(tx) == [builder |-> "branch3", tx |-> tx]
branch4(tx) == [builder |-> "branch4", tx |-> tx]

\* BranchBuilder::first, Branch3Builder::first, Branch4Builder::first, and
\* likewise second, third, fourth: the variant B1 .. B4 holding the computation.
first(b) ==
    [node |-> [kind |-> b.builder, tag |-> "B1", tx |-> b.tx], calls |-> <<>>]

second(b) ==
    [node |-> [kind |-> b.builder, tag |-> "B2", tx |-> b.tx], calls |-> <<>>]

third(b) ==
    [node |-> [kind |-> b.builder, tag |-> "B3", tx |-> b.tx], calls |-> <<>>]

fourth(b) ==
    [node |-> [kind |-> b.builder, tag |-> "B4", tx |-> b.tx], calls |-> <<>>]

\* match *self { Branch::B1(ref tx) => tx.run(ctx), Branch::B2(ref tx) => tx.run(ctx) }
Branch_run(tx, st) ==
    CASE tx.tag = "B1" -> run(tx.tx, st)
      [] tx.tag = "B2" -> run(tx.tx, st)

\* Mutant: the last arm runs its computation a second time.
Branch3_run_twice(tx, st) ==
    CASE tx.tag = "B1" -> run(tx.tx, st)
      [] tx.tag = "B2" -> run(tx.tx, st)
      [] tx.tag = "B3" -> run(tx.tx, run(tx.tx, st).st)

\* match *self { Branch3::B1(ref tx) => tx.run(ctx), ..., Branch3::B3(ref tx) => tx.run(ctx) }
Branch3_run(tx, st) ==
    CASE tx.tag = "B1" -> run(tx.tx, st)
      [] tx.tag = "B2" -> run(tx.tx, st)
      [] tx.tag = "B3" -> run(tx.tx, st)

\* match *self { Branch4::B1(ref tx) => tx.run(ctx), ..., Branch4::B4(ref tx) => tx.run(ctx) }
Branch4_run(tx, st) ==
    CASE tx.tag = "B1" -> run(tx.tx, st)
      [] tx.tag = "B2" -> run(tx.tx, st)
      [] tx.tag = "B3" -> run(tx.tx, st)
      [] tx.tag = "B4" -> run(tx.tx, st)

\* Transaction::boxed: Box::new(self)
boxed(tx) == [node |-> [kind |-> "box", tx |-> tx], calls |-> <<>>]

\* &tx: a reference to a computation is a computation
ref(tx) == [node |-> [kind |-> "ref", tx |-> tx], calls |-> <<>>]

\* Mutant: the boxed computation is run against a copy of the context, whose
\* changes are lost.
Box_run_oncopy(tx, st) ==
    LET o == run(tx.tx, st)
    IN  [r |-> o.r, st |-> [o.st EXCEPT !.ctx = st.ctx]]

\* impl Transaction for Box<T>: (**self).run(ctx)
Box_run(tx, st) == run(tx.tx, st)

\* impl Transaction for &'a T: (**self).run(ctx)
Ref_run(tx, st) == run(tx.tx, st)

run(tx, st) ==
    CASE tx.kind = "ok" -> TxOk_run(tx, st)
      [] tx.kind = "box" -> Box_run(tx, st)
      [] tx.kind = "ref" -> Ref_run(tx, st)
      [] tx.kind = "branch" -> Branch_run(tx, st)
      [] tx.kind = "branch3" -> Branch3_run(tx, st)
      [] tx.kind = "branch4" -> Branch4_run(tx, st)
      [] tx.kind = "err" -> TxErr_run(tx, st)
      [] tx.kind = "result" -> TxResult_run(tx, st)
      [] tx.kind = "lazy" -> Lazy_run(tx, st)
      [] tx.kind = "repeat" -> Repeat_run(tx, st)
      [] tx.kind = "map" -> Map_run(tx, st)
      [] tx.kind = "map_err" -> MapErr_run(tx, st)
      [] tx.kind = "or_else" -> OrElse_run(tx, st)
      [] tx.kind = "then" -> Then_run(tx, st)
      [] tx.kind = "abort" -> Abort_run(tx, st)
      [] tx.kind = "try_abort" -> TryAbort_run(tx, st)
      [] tx.kind = "recover" -> Recover_run(tx, st)
      [] tx.kind = "try_recover" -> TryRecover_run(tx, st)
      [] tx.kind = "with_ctx" -> WithCtx_run(tx, st)
      [] tx.kind = "join" -> Join_run(tx, st)
      [] tx.kind = "join3" -> Join3_run(tx, st)
      [] tx.kind = "join4" -> Join4_run(tx, st)
      [] tx.kind = "join_vec" -> JoinVec_run(tx, st)
      [] tx.kind = "join_all" -> JoinAll_run(tx, st)
      [] tx.kind = "and_then" -> AndThen_run(tx, st)
      [] tx.kind = "retry" -> Retry_run(tx, st)
      [] tx.kind = "loop_fn" -> LoopFn_run(tx, st)

---------------------------------------------------------------------------
\* The chainable methods of trait Transaction, and the closure types their
\* where-clauses admit.

NoCall == [none |-> TRUE]

\* A closure type Fn(arg) -> ret. A type is a tuple of atoms: <<"i32">>,
\* <<"Result", "i32", "String">>, <<"Tx">> (some computation). In a bound, the
\* atoms "Item" and "Err" are the receiver's associated types and "B" is a
\* type parameter the bound leaves free.
FnType(a, r) == [arg |-> a, ret |-> r]

\* The where-clause on F of each method of trait Transaction.
MethodBound(m) ==
    CASE m = "then"        -> FnType(<<"Result", "Item", "Err">>, <<"Tx">>)
      [] m = "map"         -> FnType(<<"Item">>, <<"B">>)
      [] m = "and_then"    -> FnType(<<"Item">>, <<"Tx">>)
      [] m = "map_err"     -> FnType(<<"Err">>, <<"B">>)
      [] m = "or_else"     -> FnType(<<"Err">>, <<"Tx">>)
      [] m = "abort"       -> FnType(<<"Item">>, <<"Err">>)
      [] m = "try_abort"   -> FnType(<<"Item">>, <<"Result", "B", "Err">>)
      [] m = "recover"     -> FnType(<<"Item">>, <<"Err">>)
      [] m = "try_recover" -> FnType(<<"Item">>, <<"Result", "B", "Err">>)
      [] m \in {"join", "join3", "join4"} -> FnType(<<>>, <<>>)

\* The where-clause on F of the standalone function of the same name.
FunctionBound(m) ==
    CASE m = "then"        -> FnType(<<"Result", "Item", "Err">>, <<"Tx">>)
      [] m = "map"         -> FnType(<<"Item">>, <<"B">>)
      [] m = "and_then"    -> FnType(<<"Item">>, <<"Tx">>)
      [] m = "map_err"     -> FnType(<<"Err">>, <<"B">>)
      [] m = "or_else"     -> FnType(<<"Err">>, <<"Tx">>)
      [] m = "abort"       -> FnType(<<"Item">>, <<"Err">>)
      [] m = "try_abort"   -> FnType(<<"Item">>, <<"Result", "B", "Err">>)
      [] m = "recover"     -> FnType(<<"Err">>, <<"Item">>)
      [] m = "try_recover" -> FnType(<<"Item">>, <<"Result", "B", "Err">>)
      [] m \in {"join", "join3", "join4"} -> FnType(<<>>, <<>>)

\* The where-clause on F of `impl Transaction for` the struct the method and
\* the function build: the node has a run only if F satisfies it.
RunBound(m) ==
    CASE m = "then"        -> FnType(<<"Result", "Item", "Err">>, <<"Tx">>)
      [] m = "map"         -> FnType(<<"Item">>, <<"B">>)
      [] m = "and_then"    -> FnType(<<"Item">>, <<"Tx">>)
      [] m = "map_err"     -> FnType(<<"Err">>, <<"B">>)
      [] m = "or_else"     -> FnType(<<"Err">>, <<"Tx">>)
      [] m = "abort"       -> FnType(<<"Item">>, <<"Err">>)
      [] m = "try_abort"   -> FnType(<<"Item">>, <<"Result", "B", "Err">>)
      [] m = "recover"     -> FnType(<<"Err">>, <<"Item">>)
      [] m = "try_recover" -> FnType(<<"Err">>, <<"Result", "Item", "B">>)
      [] m \in {"join", "join3", "join4"} -> FnType(<<>>, <<>>)

\* A bound read at the types ty gives to Item, Err and B.
InstAtom(a, ty) ==
    CASE a = "Item" -> ty.item
      [] a = "Err"  -> ty.err
      [] a = "B"    -> ty.b
      [] OTHER      -> a

InstType(t, ty) == [i \in 1 .. Len(t) |-> InstAtom(t[i], ty)]

Inst(bound, ty) == FnType(InstType(bound.arg, ty), InstType(bound.ret, ty))

\* Type checking of a closure of type sig against a where-clause.
MatchAtom(a, c, ty) ==
    CASE a = "Item" -> c = ty.item
      [] a = "Err"  -> c = ty.err
      [] a = "B"    -> TRUE
      [] OTHER      -> c = a

MatchType(t, c, ty) ==
    /\ Len(t) = Len(c)
    /\ \A i \in 1 .. Len(t) : MatchAtom(t[i], c[i], ty)

Satisfies(sig, bound, ty) ==
    /\ MatchType(bound.arg, sig.arg, ty)
    /\ MatchType(bound.ret, sig.ret, ty)

\* The method bodies: each builds the struct from self and its arguments.
Transaction_then(self, f) ==
    [node |-> [kind |-> "then", tx |-> self, f |-> f], calls |-> <<>>]

Transaction_map(self, f) ==
    [node |-> [kind |-> "map", tx |-> self, f |-> f], calls |-> <<>>]

Transaction_and_then(self, f) ==
    [node |-> [kind |-> "and_then", tx |-> self, f |-> f], calls |-> <<>>]

Transaction_map_err(self, f) ==
    [node |-> [kind |-> "map_err", tx |-> self, f |-> f], calls |-> <<>>]

Transaction_or_else(self, f) ==
    [node |-> [kind |-> "or_else", tx |-> self, f |-> f], calls |-> <<>>]

Transaction_abort(self, f) ==
    [node |-> [kind |-> "abort", tx |-> self, f |-> f], calls |-> <<>>]

Transaction_try_abort(self, f) ==
    [node |-> [kind |-> "try_abort", tx |-> self, f |-> f], calls |-> <<>>]

Transaction_recover(self, f) ==
    [node |-> [kind |-> "recover", tx |-> self, f |-> f], calls |-> <<>>]

Transaction_try_recover(self, f) ==
    [node |-> [kind |-> "try_recover", tx |-> self, f |-> f], calls |-> <<>>]

\* self.m(args)
MethodNode(m, self, args) ==
    CASE m = "then"        -> Transaction_then(self, args[1])
      [] m = "map"         -> Transaction_map(self, args[1])
      [] m = "and_then"    -> Transaction_and_then(self, args[1])
      [] m = "map_err"     -> Transaction_map_err(self, args[1])
      [] m = "or_else"     -> Transaction_or_else(self, args[1])
      [] m = "abort"       -> Transaction_abort(self, args[1])
      [] m = "try_abort"   -> Transaction_try_abort(self, args[1])
      [] m = "recover"     -> Transaction_recover(self, args[1])
      [] m = "try_recover" -> Transaction_try_recover(self, args[1])
      [] m = "join"        -> Transaction_join(self, args[1])
      [] m = "join3"       -> Transaction_join3(self, args[1], args[2])
      [] m = "join4"       -> Transaction_join4(self, args[1], args[2], args[3])

\* m(a, args): the standalone function of the same name
FunctionNode(m, a, args) ==
    CASE m = "then"        -> then(a, args[1])
      [] m = "map"         -> map(a, args[1])
      [] m = "and_then"    -> and_then(a, args[1])
      [] m = "map_err"     -> map_err(a, args[1])
      [] m = "or_else"     -> or_else(a, args[1])
      [] m = "abort"       -> abort(a, args[1])
      [] m = "try_abort"   -> try_abort(a, args[1])
      [] m = "recover"     -> recover(a, args[1])
      [] m = "try_recover" -> try_recover(a, args[1])
      [] m = "join"        -> join(a, args[1])
      [] m = "join3"       -> join3(a, args[1], args[2])
      [] m = "join4"       -> join4(a, args[1], args[2], args[3])

---------------------------------------------------------------------------
\* The computations user code hands to the combinators as children: the
\* child at position id is one of these.
Leaves(id) ==
    { with_ctx([fn |-> "tag_ok", id |-> id]),
      with_ctx([fn |-> "tag_err", id |-> id]),
      with_ctx([fn |-> "ok_when_x2", id |-> id]),
      ok(id),
      err(id) }

\* The contexts a runner supplies.
Ctxs == { [x |-> x0, y |-> 0] : x0 \in 0 .. MaxX0 }

Init ==
    /\ node = NoNode
    /\ phase = "idle"
    /\ ctx = [x |-> 0, y |-> 0]
    /\ ctx0 = [x |-> 0, y |-> 0]
    /\ trace = <<>>
    /\ runStart = 0
    /\ ret = NoResult
    /\ runs = 0
    /\ prev = NoResult
    /\ given = NoNode
    /\ call = NoCall

\* User code evaluates a constructor expression; c is what the constructor
\* returns: the node, and the closure invocations it made.
Construct(c) ==
    /\ node' = c.node
    /\ trace' = trace \o c.calls
    /\ phase' = "built"
    /\ given' = c.node
    /\ call' = NoCall
    /\ UNCHANGED <<ctx, ctx0, runStart, ret, runs, prev>>

\* Vec<B> of the leaves, the element at index i tagged i (0-based).
Vecs(n) == { v \in [1 .. n -> UNION { Leaves(i) : i \in 0 .. n - 1 }] :
               \A i \in 1 .. n : v[i] \in Leaves(i - 1) }

\* The closures user code hands to and_then.
AndThenFns ==
    { [fn |-> "const", id |-> 0, tx |-> b] : b \in Leaves(2) \cup
          { with_ctx([fn |-> "inc_y", id |-> 2]), with_ctx([fn |-> "read_xy", id |-> 3]) } }
    \cup { [fn |-> "leaf_of", id |-> 0, body |-> b] : b \in {"tag_ok", "tag_err"} }

\* inc x, then inc y, then read x + y (the stm example), up to its last step.
IncX == with_ctx([fn |-> "inc_x", id |-> 1])
IncXY == and_then(IncX, [fn |-> "const", id |-> 0, tx |-> with_ctx([fn |-> "inc_y", id |-> 2])]).node

\* The closures user code hands to loop_fn.
LoopFns ==
    { [fn |-> "step_ctx", id |-> 0, lim |-> l] : l \in 0 .. MaxLim }
    \cup { [fn |-> "step_state", id |-> 0, lim |-> l, bad |-> b] :
             l \in 0 .. MaxLim, b \in -1 .. MaxLim }
    \cup { [fn |-> "forever", id |-> 0] }

BuildJoin ==
    /\ phase = "idle"
    /\ \E a \in Leaves(1), b \in Leaves(2) : Construct(join(a, b))

BuildJoin3 ==
    /\ phase = "idle"
    /\ \E a \in Leaves(1), b \in Leaves(2), c \in Leaves(3) : Construct(join3(a, b, c))

BuildJoin4 ==
    /\ phase = "idle"
    /\ \E a \in Leaves(1), b \in Leaves(2), c \in Leaves(3), d \in Leaves(4) :
         Construct(join4(a, b, c, d))

BuildJoinVec ==
    /\ phase = "idle"
    /\ \E n \in 0 .. MaxVec : \E v \in Vecs(n) : Construct(join_vec(v))

BuildJoinAll ==
    /\ phase = "idle"
    /\ \E n \in 0 .. MaxVec : \E v \in Vecs(n) : Construct(join_all(v))

BuildAndThen ==
    /\ phase = "idle"
    /\ \E a \in Leaves(1) \cup {IncX, IncXY}, f \in AndThenFns : Construct(and_then(a, f))

BuildRetry ==
    /\ phase = "idle"
    /\ \E n \in 0 .. MaxN : \E v \in Vecs(n) :
         Construct(retry(n, [fn |-> "tab", id |-> 0, tab |-> v]))

BuildLoopFn ==
    /\ phase = "idle"
    /\ \E s0 \in 0 .. MaxS0, f \in LoopFns : Construct(loop_fn(s0, f))

BuildRepeat ==
    /\ phase = "idle"
    /\ \E n \in 0 .. MaxN : \E v \in Vecs(n) :
         Construct(repeat(n, [fn |-> "tab", id |-> 0, tab |-> v]))

\* The closures user code hands to map, map_err, abort and recover.
ValFns == { [fn |-> "add", id |-> 10], [fn |-> "always", id |-> 7] }

\* The closures user code hands to try_abort, try_recover and lazy.
ResFns == { [fn |-> b, id |-> 10] : b \in {"ok_add", "err_add", "ok_if_odd"} }

\* The closures user code hands to or_else.
OrElseFns ==
    { [fn |-> "const", id |-> 0, tx |-> b] : b \in Leaves(2) }
    \cup { [fn |-> "leaf_of", id |-> 0, body |-> b] : b \in {"tag_ok", "tag_err"} }

\* The closures user code hands to then: |r| match r { Ok(_) => onOk, Err(_) => onErr }
ThenFns ==
    { [fn |-> "on_result", id |-> 0, onOk |-> a, onErr |-> b] :
        a \in Leaves(2), b \in Leaves(3) }

BuildLeaf ==
    /\ phase = "idle"
    /\ \E t \in Leaves(1) \cup {IncX} \cup { lazy(f) : f \in ResFns }
                \cup { result(r) : r \in {Ok(1), Err(1)} } :
         Construct([node |-> t, calls |-> <<>>])

BuildMap ==
    /\ phase = "idle"
    /\ \E a \in Leaves(1), f \in ValFns : Construct(map(a, f))

BuildMapErr ==
    /\ phase = "idle"
    /\ \E a \in Leaves(1), f \in ValFns : Construct(map_err(a, f))

BuildOrElse ==
    /\ phase = "idle"
    /\ \E a \in Leaves(1), f \in OrElseFns : Construct(or_else(a, f))

BuildThen ==
    /\ phase = "idle"
    /\ \E a \in Leaves(1), f \in ThenFns : Construct(then(a, f))

BuildAbort ==
    /\ phase = "idle"
    /\ \E a \in Leaves(1), f \in ValFns : Construct(abort(a, f))

BuildTryAbort ==
    /\ phase = "idle"
    /\ \E a \in Leaves(1), f \in ResFns : Construct(try_abort(a, f))

BuildRecover ==
    /\ phase = "idle"
    /\ \E a \in Leaves(1), f \in ValFns : Construct(recover(a, f))

BuildTryRecover ==
    /\ phase = "idle"
    /\ \E a \in Leaves(1), f \in ResFns : Construct(try_recover(a, f))

\* Computations user code wraps whole: leaves and composites whose outcome
\* and context effects depend on the context they are run in.
Subjects ==
    Leaves(1) \cup
    { IncXY,
      join(with_ctx([fn |-> "tag_err", id |-> 1]), with_ctx([fn |-> "tag_ok", id |-> 2])).node,
      retry(2, [fn |-> "tab", id |-> 0,
                tab |-> <<with_ctx([fn |-> "ok_when_x2", id |-> 0]),
                          with_ctx([fn |-> "ok_when_x2", id |-> 1])>>]).node }

BuildBranch ==
    /\ phase = "idle"
    /\ \E a \in Subjects : \E c \in {first(branch(a)), second(branch(a))} : Construct(c)

BuildBranch3 ==
    /\ phase = "idle"
    /\ \E a \in Subjects :
         \E c \in {first(branch3(a)), second(branch3(a)), third(branch3(a))} : Construct(c)

BuildBranch4 ==
    /\ phase = "idle"
    /\ \E a \in Subjects :
         \E c \in {first(branch4(a)), second(branch4(a)), third(branch4(a)),
                   fourth(branch4(a))} : Construct(c)

BuildBoxed ==
    /\ phase = "idle"
    /\ \E a \in Subjects : Construct(boxed(a))

BuildRef ==
    /\ phase = "idle"
    /\ \E a \in Subjects : Construct(ref(a))

\* What user code hands over in place of a computation: a bare Result, or a
\* tuple of two to four computations or bare Results.
Convertibles ==
    LET parts(i) == Leaves(i) \cup {Ok(i), Err(i)}
    IN  {Ok(1), Err(1)}
        \cup { Tuple(<<a, b>>) : a \in parts(1), b \in parts(2) }
        \cup { Tuple(<<a, b, c>>) : a \in Leaves(1), b \in parts(2), c \in Leaves(3) }
        \cup { Tuple(<<a, b, c, d>>) :
                 a \in Leaves(1), b \in Leaves(2), c \in parts(3), d \in Leaves(4) }

\* User code hands a bare Result or a tuple to something that expects a
\* computation, which converts it with into_transaction.
BuildConverted ==
    /\ phase = "idle"
    /\ \E v \in Convertibles :
         /\ node' = into_transaction(v)
         /\ given' = v
    /\ phase' = "built"
    /\ call' = NoCall
    /\ UNCHANGED <<ctx, ctx0, trace, runStart, ret, runs, prev>>

\* The chainable methods.
Methods ==
    {"then", "map", "and_then", "map_err", "or_else", "abort", "try_abort",
     "recover", "try_recover", "join", "join3", "join4"}

\* The receivers user code calls the methods on.
Receivers ==
    { with_ctx([fn |-> b, id |-> 1]) : b \in {"tag_ok", "tag_err", "ok_when_x2"} }

\* The argument lists user code passes to method m.
ArgsFor(m) ==
    CASE m \in {"map", "map_err", "abort", "recover"} -> { <<f>> : f \in ValFns }
      [] m \in {"try_abort", "try_recover"} -> { <<f>> : f \in ResFns }
      [] m = "and_then" ->
           { <<[fn |-> "const", id |-> 0, tx |-> b]>> :
               b \in {with_ctx([fn |-> "inc_y", id |-> 2]), err(2)} }
      [] m = "or_else" ->
           { <<[fn |-> "leaf_of", id |-> 0, body |-> b]>> : b \in {"tag_ok", "tag_err"} }
      [] m = "then" ->
           { <<[fn |-> "on_result", id |-> 0, onOk |-> ok(2),
                onErr |-> with_ctx([fn |-> "tag_err", id |-> 3])]>> }
      [] m = "join" -> { <<b>> : b \in {with_ctx([fn |-> "tag_err", id |-> 2]), Ok(2)} }
      [] m = "join3" ->
           { <<with_ctx([fn |-> "tag_ok", id |-> 2]), c>> :
               c \in {with_ctx([fn |-> "tag_err", id |-> 3]), Ok(3)} }
      [] m = "join4" ->
           { <<Err(2), with_ctx([fn |-> "tag_ok", id |-> 3]), d>> :
               d \in {with_ctx([fn |-> "tag_err", id |-> 4]), ok(4)} }

\* The Rust types Item, Err and the free parameter B stand for at a call.
Typings ==
    { [item |-> "i32", err |-> e, b |-> b] : e, b \in {"i32", "String"} }

\* User code writes self.m(args) with a closure of type sig. The compiler
\* accepts the call if sig meets the method's where-clause, and the value
\* built is a computation (has a run) if sig meets the impl's where-clause;
\* otherwise the program has no node to run.
CallMethod ==
    /\ phase = "idle"
    /\ \E m \in Methods, self \in Receivers, ty \in Typings :
         \E args \in ArgsFor(m),
            b \in {RunBound(m), MethodBound(m), FunctionBound(m)} :
           LET sig == Inst(b, ty)
               accepted == /\ Satisfies(sig, MethodBound(m), ty)
                           /\ Satisfies(sig, RunBound(m), ty)
               built == IF accepted THEN MethodNode(m, self, args).node ELSE NoNode
           IN  /\ call' = [method |-> m, self |-> self, args |-> args,
                            sig |-> sig, ty |-> ty, accepted |-> accepted]
               /\ node' = built
               /\ given' = built
               /\ phase' = IF accepted THEN "built" ELSE "idle"
    /\ UNCHANGED <<ctx, ctx0, trace, runStart, ret, runs, prev>>

\* Mutant: a run uses up the node: each run of a retry node takes one attempt
\* off its budget.
RunTx_consumes ==
    /\ phase \in {"built", "ran"}
    /\ runs < MaxRuns
    /\ \E c0 \in Ctxs :
         LET o == run(node, [ctx |-> c0, trace |-> trace])
         IN  /\ ctx0' = c0
             /\ ctx' = o.st.ctx
             /\ trace' = o.st.trace
             /\ IF "hung" \in DOMAIN o.r
                THEN ret' = NoResult /\ phase' = "hung"
                ELSE ret' = o.r /\ phase' = "ran"
    /\ runStart' = Len(trace)
    /\ runs' = runs + 1
    /\ prev' = [ctx0 |-> ctx0, ret |-> ret, ctx |-> ctx,
                trace |-> SubSeq(trace, runStart + 1, Len(trace))]
    /\ node' = IF node.kind = "retry" /\ node.n > 0
               THEN [node EXCEPT !.n = @ - 1]
               ELSE node
    /\ UNCHANGED <<given, call>>

\* Mutant: a loop_fn node keeps the state its last iteration ran with, and
\* its next run starts there.
RunTx_resumes ==
    /\ phase \in {"built", "ran"}
    /\ runs < MaxRuns
    /\ \E c0 \in Ctxs :
         LET o == run(node, [ctx |-> c0, trace |-> trace])
             last == o.st.trace[Len(o.st.trace)]
         IN  /\ ctx0' = c0
             /\ ctx' = o.st.ctx
             /\ trace' = o.st.trace
             /\ IF "hung" \in DOMAIN o.r
                THEN ret' = NoResult /\ phase' = "hung"
                ELSE ret' = o.r /\ phase' = "ran"
             /\ node' = IF node.kind = "loop_fn"
                        THEN [node EXCEPT !.tx = into_transaction(Apply(node.f, last.id))]
                        ELSE node
    /\ runStart' = Len(trace)
    /\ runs' = runs + 1
    /\ prev' = [ctx0 |-> ctx0, ret |-> ret, ctx |-> ctx,
                trace |-> SubSeq(trace, runStart + 1, Len(trace))]
    /\ UNCHANGED <<given, call>>

\* The runner constructs a context and calls run(&self, ctx) once; the node
\* is borrowed immutably and is the same node afterwards.
RunTx ==
    /\ phase \in {"built", "ran"}
    /\ runs < MaxRuns
    /\ \E c0 \in Ctxs :
         LET o == run(node, [ctx |-> c0, trace |-> trace])
         IN  /\ ctx0' = c0
             /\ ctx' = o.st.ctx
             /\ trace' = o.st.trace
             /\ IF "hung" \in DOMAIN o.r
                THEN ret' = NoResult /\ phase' = "hung"
                ELSE ret' = o.r /\ phase' = "ran"
    /\ runStart' = Len(trace)
    /\ runs' = runs + 1
    /\ prev' = [ctx0 |-> ctx0, ret |-> ret, ctx |-> ctx,
                trace |-> SubSeq(trace, runStart + 1, Len(trace))]
    /\ UNCHANGED <<node, given, call>>

Next ==
    \/ BuildJoin
    \/ BuildJoin3
    \/ BuildJoin4
    \/ BuildJoinVec
    \/ BuildJoinAll
    \/ BuildAndThen
    \/ BuildRetry
    \/ BuildLoopFn
    \/ BuildRepeat
    \/ BuildLeaf
    \/ BuildMap
    \/ BuildMapErr
    \/ BuildOrElse
    \/ BuildThen
    \/ BuildAbort
    \/ BuildTryAbort
    \/ BuildRecover
    \/ BuildTryRecover
    \/ BuildBranch
    \/ BuildBranch3
    \/ BuildBranch4
    \/ BuildBoxed
    \/ BuildRef
    \/ BuildConverted
    \/ CallMethod
    \/ RunTx

Spec == Init /\ [][Next]_vars

---------------------------------------------------------------------------
\* What the claims are stated over.

\* The closure invocations of the latest run.
RunTrace == SubSeq(trace, runStart + 1, Len(trace))

JoinKinds == {"join", "join3", "join4"}
VecKinds == {"join_vec", "join_all"}

\* The children of a join node, in argument order.
Children(n) ==
    CASE n.kind = "join" -> <<n.tx1, n.tx2>>
      [] n.kind = "join3" -> <<n.tx1, n.tx2, n.tx3>>
      [] n.kind = "join4" -> <<n.tx1, n.tx2, n.tx3, n.tx4>>
      [] n.kind \in VecKinds -> n.vec

IsCtxLeaf(t) == t.kind = "with_ctx"

\* What a leaf does on its own when run in context cx.
LeafOutcome(t, cx) ==
    CASE t.kind = "with_ctx" -> CtxFn(t.f, cx)
      [] t.kind = "ok" -> [r |-> Ok(t.ok), ctx |-> cx]
      [] t.kind = "err" -> [r |-> Err(t.err), ctx |-> cx]
      [] t.kind = "result" -> [r |-> t.r, ctx |-> cx]

\* The outcomes of the leaves ts[1..n] run one after the other from cx, each
\* in the context the one before it left, whatever the results.
RECURSIVE Outcomes(_, _, _)
Outcomes(ts, n, cx) ==
    IF n = 0 THEN <<>>
    ELSE LET before == Outcomes(ts, n - 1, cx)
             at == IF n = 1 THEN cx ELSE before[n - 1].ctx
         IN  Append(before, [r |-> LeafOutcome(ts[n], at).r,
                             ctx |-> LeafOutcome(ts[n], at).ctx,
                             at |-> at])

\* The closure invocations that running every leaf of ts in order makes.
ExpectedCalls(ts, cx) ==
    LET os == Outcomes(ts, Len(ts), cx)
        idx == SelectSeq([i \in 1 .. Len(ts) |-> i], LAMBDA i : IsCtxLeaf(ts[i]))
    IN  [k \in 1 .. Len(idx) |-> Call(ts[idx[k]].f, 0, os[idx[k]].at)]

FinalCtx(ts, cx) ==
    IF Len(ts) = 0 THEN cx ELSE Outcomes(ts, Len(ts), cx)[Len(ts)].ctx

\* Every child of the node was run once, in argument order, each against the
\* context the child before it left.
RanAllChildren ==
    /\ RunTrace = ExpectedCalls(Children(node), ctx0)
    /\ ctx = FinalCtx(Children(node), ctx0)

Failing(os) == { i \in 1 .. Len(os) : ~os[i].r.ok }
Leftmost(S) == CHOOSE i \in S : \A j \in S : i <= j

\* C1: one run of join_vec / join_all runs every element against the context
\* in list order, also the elements after the first failing one.
C1_JoinVecRunsEveryElement ==
    (phase = "ran" /\ node.kind \in VecKinds) => RanAllChildren

\* C2: one run of join, join3 or join4 runs every child exactly once against
\* the same context, left to right, whatever the earlier children returned.
C2_JoinRunsEveryChild ==
    (phase = "ran" /\ node.kind \in JoinKinds) => RanAllChildren

\* A join4 whose first child fails has run, and all four closures were called.
C2_Witness ==
    /\ phase = "ran"
    /\ node.kind = "join4"
    /\ node.tx1 = with_ctx([fn |-> "tag_err", id |-> 1])
    /\ \A t \in {node.tx2, node.tx3, node.tx4} : IsCtxLeaf(t)
    /\ Len(RunTrace) = 4
    /\ ctx.x = ctx0.x + 4

\* C5: when children of a join (fixed arity or vec) fail, the run returns the
\* error of the leftmost failing child.
C5_LeftmostError ==
    (phase = "ran" /\ node.kind \in JoinKinds \cup VecKinds) =>
        LET os == Outcomes(Children(node), Len(Children(node)), ctx0)
        IN  Failing(os) # {} => ~ret.ok /\ ret.v = os[Leftmost(Failing(os))].r.v

\* A join3 whose second and third child both failed returned the second's error.
C5_Witness ==
    /\ phase = "ran"
    /\ node.kind = "join3"
    /\ LET os == Outcomes(Children(node), 3, ctx0)
       IN  Failing(os) = {2, 3}
    /\ ~ret.ok
    /\ ret.v = 2

\* C6: when every child succeeds, the run returns the children's items, one
\* per child, in argument order.
C6_ItemsInOrder ==
    (phase = "ran" /\ node.kind \in JoinKinds \cup VecKinds) =>
        LET os == Outcomes(Children(node), Len(Children(node)), ctx0)
        IN  Failing(os) = {} =>
              /\ ret.ok
              /\ Len(ret.v) = Len(Children(node))
              /\ \A i \in 1 .. Len(os) : ret.v[i] = os[i].r.v

\* C3: constructing a node invokes no user-supplied closure and causes no
\* effect: once a node is built and before any run, no closure has been called.
C3_NoClosureWhenBuilt ==
    phase = "built" => trace = <<>>

\* The extent of the early call: among the constructors only loop_fn calls a
\* closure, once, with the initial state and without any context, and stores
\* the computation it returns without running it.
EagerCallOnlyInLoopFn ==
    phase = "built" =>
        /\ \A i \in 1 .. Len(trace) : trace[i].at = NoCtx
        /\ IF node.kind = "loop_fn"
           THEN /\ Len(trace) = 1
                /\ trace[1].fn = node.f.fn
                /\ node.tx = into_transaction(Apply(node.f, trace[1].arg))
           ELSE trace = <<>>

\* The iterations of a loop over f started in state s and context cx, as the
\* combinator is meant to make them: each Continue(s') is followed by the
\* iteration f(s') in the context the one before left.
RECURSIVE Iterations(_, _, _, _)
Iterations(f, s, cx, fuel) ==
    LET o == CtxFn(Apply(f, s).f, cx)
        this == [s |-> s, at |-> cx, r |-> o.r, ctx |-> o.ctx]
    IN  IF o.r.ok /\ o.r.v.loop = "Continue" /\ fuel > 0
        THEN <<this>> \o Iterations(f, o.r.v.val, o.ctx, fuel - 1)
        ELSE <<this>>

\* The invocations of the node's own closure f among the events tr.
FCalls(tr) == SelectSeq(tr, LAMBDA e : e.fn = node.f.fn)

ARun == run(node.tx, [ctx |-> ctx0, trace |-> <<>>])

\* C7: when A fails, A.and_then(f) never invokes f, runs nothing f builds,
\* and returns A's error.
C7_AndThenShortCircuits ==
    (phase = "ran" /\ node.kind = "and_then" /\ ~ARun.r.ok) =>
        /\ ret = ARun.r
        /\ FCalls(RunTrace) = <<>>
        /\ RunTrace = ARun.st.trace
        /\ ctx = ARun.st.ctx

\* A failing A in front of a closure that would write to the context.
C7_Witness ==
    /\ phase = "ran"
    /\ node.kind = "and_then"
    /\ node.tx = with_ctx([fn |-> "tag_err", id |-> 1])
    /\ node.f = [fn |-> "const", id |-> 0, tx |-> with_ctx([fn |-> "tag_ok", id |-> 2])]
    /\ ret = Err(1)
    /\ Len(RunTrace) = 1

\* C8: when A succeeds with x, f(x) is run against the context as A left it
\* and its result is the node's result; inc x, inc y, read x + y reads the
\* incremented values.
C8_AndThenChains ==
    (phase = "ran" /\ node.kind = "and_then" /\ ARun.r.ok) =>
        LET b == into_transaction(Apply(node.f, ARun.r.v))
            bo == run(b, [ctx |-> ARun.st.ctx, trace |-> <<>>])
        IN  /\ ret = bo.r
            /\ ctx = bo.st.ctx
            /\ RunTrace = ARun.st.trace \o <<Call(node.f, ARun.r.v, ARun.st.ctx)>> \o bo.st.trace
            /\ (node.tx = IncXY /\ b = with_ctx([fn |-> "read_xy", id |-> 3])) =>
                  ret = Ok(ctx0.x + 1 + ctx0.y + 1)

\* The stm example from x = y = 0 has returned 2.
C8_Witness ==
    /\ phase = "ran"
    /\ node.kind = "and_then"
    /\ node.tx = IncXY
    /\ node.f.fn = "const" /\ node.f.tx = with_ctx([fn |-> "read_xy", id |-> 3])
    /\ ctx0 = [x |-> 0, y |-> 0]
    /\ ret = Ok(2)
    /\ ctx = [x |-> 1, y |-> 1]

\* The attempts f(0), ..., f(n - 1) of a retry node, each run after the one
\* before it.
Attempts == Outcomes(node.f.tab, node.n, ctx0)

\* C9: if all n attempts of retry(n, f) fail, the run fails with the sequence
\* of the n errors, the i-th being the error of attempt f(i).
C9_RetryCollectsErrors ==
    (phase = "ran" /\ node.kind = "retry" /\ Failing(Attempts) = 1 .. node.n) =>
        /\ ~ret.ok
        /\ Len(ret.v) = node.n
        /\ \A i \in 1 .. node.n : ret.v[i] = Attempts[i].r.v

\* Three attempts have failed.
C9_Witness ==
    /\ phase = "ran"
    /\ node.kind = "retry"
    /\ node.n = 3
    /\ ~ret.ok
    /\ ret.v = <<0, 1, 2>>

\* C10: if attempt k is the first to succeed, retry returns its item, f is
\* not invoked for an index after k, no later attempt runs, and the errors
\* of the attempts before k are dropped.
C10_RetryStopsAtSuccess ==
    (phase = "ran" /\ node.kind = "retry" /\ Failing(Attempts) # 1 .. node.n) =>
        LET k == Leftmost((1 .. node.n) \ Failing(Attempts))
            fs == FCalls(RunTrace)
            leafCalls == SelectSeq(RunTrace, LAMBDA e : e.fn # node.f.fn)
        IN  /\ ret.ok
            /\ ret.v = Attempts[k].r.v
            /\ Len(fs) = k
            /\ \A i \in 1 .. k : fs[i].arg = i - 1
            /\ leafCalls = ExpectedCalls(SubSeq(node.f.tab, 1, k), ctx0)
            /\ ctx = Attempts[k].ctx

\* The second of three attempts succeeded after the first failed, and the
\* third, which would have written to the context, was not made.
C10_Witness ==
    /\ phase = "ran"
    /\ node.kind = "retry"
    /\ node.n = 3
    /\ node.f.tab[1] = with_ctx([fn |-> "tag_err", id |-> 0])
    /\ node.f.tab[2] = with_ctx([fn |-> "tag_ok", id |-> 1])
    /\ node.f.tab[3] = with_ctx([fn |-> "tag_ok", id |-> 2])
    /\ ret.ok
    /\ ret.v = 1
    /\ Len(RunTrace) = 4
    /\ ctx.x = ctx0.x + 2

\* A join and a three-element join_vec with only succeeding children have run.
C6_Witness ==
    /\ phase = "ran"
    /\ ret.ok
    /\ \/ node.kind = "join" /\ ret.v = <<1, 2>>
       \/ node.kind = "join_vec" /\ ret.v = <<0, 1, 2>>

\* The events of the iterations 1 .. k of a repeat or retry node run from cx:
\* for each index the invocation of f, then what the computation it built
\* does, before the next index is touched.
RECURSIVE IterationEvents(_, _, _)
IterationEvents(n, k, cx) ==
    IF k = 0 THEN <<>>
    ELSE LET os == Outcomes(n.f.tab, k, cx)
             t == n.f.tab[k]
         IN  IterationEvents(n, k - 1, cx)
               \o <<Call(n.f, k - 1, os[k].at)>>
               \o (IF IsCtxLeaf(t) THEN <<Call(t.f, 0, os[k].at)>> ELSE <<>>)

\* C11: if iteration k of repeat(n, f) is the first to fail, the run returns
\* exactly that failure, f is not invoked for an index after k, no later
\* iteration runs against the context, and the earlier items are dropped.
C11_RepeatStopsAtFailure ==
    (phase = "ran" /\ node.kind = "repeat" /\ Failing(Attempts) # {}) =>
        LET k == Leftmost(Failing(Attempts))
        IN  /\ ~ret.ok
            /\ ret.v = Attempts[k].r.v
            /\ RunTrace = IterationEvents(node, k, ctx0)
            /\ ctx = Attempts[k].ctx

\* The second of three iterations failed after the first succeeded; the
\* third, which would have written to the context, was not made.
C11_Witness ==
    /\ phase = "ran"
    /\ node.kind = "repeat"
    /\ node.n = 3
    /\ node.f.tab[1] = with_ctx([fn |-> "tag_ok", id |-> 0])
    /\ node.f.tab[2] = with_ctx([fn |-> "tag_err", id |-> 1])
    /\ node.f.tab[3] = with_ctx([fn |-> "tag_ok", id |-> 2])
    /\ ~ret.ok
    /\ ret.v = 1
    /\ Len(RunTrace) = 4
    /\ ctx.x = ctx0.x + 2

\* C12: if all iterations of repeat(n, f) succeed, f is invoked with 0, ...,
\* n - 1 in that order, each f(i) is built and run before f(i + 1) is built,
\* and the run returns the n items in iteration order.
C12_RepeatCollectsItems ==
    (phase = "ran" /\ node.kind = "repeat" /\ Failing(Attempts) = {}) =>
        /\ ret.ok
        /\ Len(ret.v) = node.n
        /\ \A i \in 1 .. node.n : ret.v[i] = Attempts[i].r.v
        /\ RunTrace = IterationEvents(node, node.n, ctx0)
        /\ \A i \in 1 .. node.n : FCalls(RunTrace)[i].arg = i - 1
        /\ ctx = FinalCtx(node.f.tab, ctx0)

\* Three iterations, each writing to the context, have all succeeded.
C12_Witness ==
    /\ phase = "ran"
    /\ node.kind = "repeat"
    /\ node.n = 3
    /\ \A i \in 1 .. 3 : node.f.tab[i] = with_ctx([fn |-> "tag_ok", id |-> i - 1])
    /\ ret.ok
    /\ ret.v = <<0, 1, 2>>
    /\ Len(RunTrace) = 6
    /\ ctx.x = ctx0.x + 3

\* C13: when the computation of an iteration of loop_fn fails, the first
\* included, the run returns that error at once: f is not invoked again and
\* no further iteration runs against the context.
C13_LoopStopsAtFailure ==
    (phase = "ran" /\ node.kind = "loop_fn") =>
        LET its == Iterations(node.f, trace[1].arg, ctx0, MaxIter)
            last == its[Len(its)]
            bodies == SelectSeq(RunTrace, LAMBDA e : e.fn # node.f.fn)
            fs == FCalls(RunTrace)
        IN  ~last.r.ok =>
              /\ ~ret.ok
              /\ ret.v = last.r.v
              /\ Len(bodies) = Len(its)
              /\ \A i \in 1 .. Len(its) : bodies[i].at = its[i].at /\ bodies[i].id = its[i].s
              /\ Len(fs) = Len(its) - 1
              /\ \A i \in 1 .. Len(fs) : fs[i].arg = its[i + 1].s
              /\ RunTrace[Len(RunTrace)] = bodies[Len(bodies)]
              /\ ctx = last.ctx

\* A loop over states 0, 1, 2 whose third iteration failed: three iterations
\* ran and f was called twice within the run.
C13_Witness ==
    /\ phase = "ran"
    /\ node.kind = "loop_fn"
    /\ node.f.fn = "step_state" /\ node.f.bad = 2 /\ node.f.lim = 3
    /\ trace[1].arg = 0
    /\ ~ret.ok
    /\ ret.v = 2
    /\ Len(FCalls(RunTrace)) = 2
    /\ ctx.y = 3

\* The first iteration of a loop failed: f was not called within the run.
C13_WitnessFirst ==
    /\ phase = "ran"
    /\ node.kind = "loop_fn"
    /\ node.f.fn = "step_state" /\ node.f.bad = 1
    /\ trace[1].arg = 1
    /\ ~ret.ok
    /\ ret.v = 1
    /\ Len(RunTrace) = 1

\* The computation a one-child node wraps, run on its own in the context the
\* runner supplied.
Wrapped == run(node.tx, [ctx |-> ctx0, trace |-> <<>>])

\* The invocations of the node's own closure in the latest run.
OwnCalls == SelectSeq(RunTrace, LAMBDA e : e.fn = node.f.fn /\ e.id = node.f.id)

\* C14: on every run of A.then(f), f is invoked exactly once with A's whole
\* result, success or failure, the computation it returns is run against
\* the same context, and its result is the node's result.
C14_ThenAlwaysContinues ==
    (phase = "ran" /\ node.kind = "then") =>
        LET a == Wrapped
            called == [fn |-> node.f.fn, id |-> node.f.id, arg |-> a.r.v,
                       at |-> a.st.ctx, ok |-> a.r.ok]
            b == run(into_transaction(ApplyResult(node.f, a.r)),
                     [ctx |-> a.st.ctx, trace |-> <<>>])
        IN  /\ Len(OwnCalls) = 1
            /\ OwnCalls[1] = called
            /\ RunTrace = a.st.trace \o <<called>> \o b.st.trace
            /\ ret = b.r
            /\ ctx = b.st.ctx

\* A failed with 1 after writing to the context; f was called with Err(1)
\* and the computation it chose for a failure ran and succeeded with 3.
C14_Witness ==
    /\ phase = "ran"
    /\ node.kind = "then"
    /\ node.tx = with_ctx([fn |-> "tag_err", id |-> 1])
    /\ node.f.onErr = with_ctx([fn |-> "tag_ok", id |-> 3])
    /\ Len(RunTrace) = 3
    /\ RunTrace[2].fn = "on_result" /\ ~RunTrace[2].ok /\ RunTrace[2].arg = 1
    /\ RunTrace[3].at.x = ctx0.x + 1
    /\ ret = Ok(3)
    /\ ctx.x = ctx0.x + 2

\* C15: when A fails with e, A.or_else(f) builds f(e), runs it against the
\* same context and returns its result; when A succeeds, f is never invoked
\* and A's item is returned unchanged.
C15_OrElseFallsBack ==
    (phase = "ran" /\ node.kind = "or_else") =>
        LET a == Wrapped
            b == run(into_transaction(Apply(node.f, a.r.v)),
                     [ctx |-> a.st.ctx, trace |-> <<>>])
        IN  IF a.r.ok
            THEN /\ ret = a.r
                 /\ OwnCalls = <<>>
                 /\ RunTrace = a.st.trace
                 /\ ctx = a.st.ctx
            ELSE /\ ret = b.r
                 /\ OwnCalls = <<Call(node.f, a.r.v, a.st.ctx)>>
                 /\ RunTrace = a.st.trace \o OwnCalls \o b.st.trace
                 /\ ctx = b.st.ctx

\* A failed with 1 after writing to the context; the fallback built from
\* that error ran after it, wrote too, and succeeded.
C15_Witness ==
    /\ phase = "ran"
    /\ node.kind = "or_else"
    /\ node.tx = with_ctx([fn |-> "tag_err", id |-> 1])
    /\ node.f.fn = "leaf_of" /\ node.f.body = "tag_ok"
    /\ Len(RunTrace) = 3
    /\ RunTrace[2].arg = 1
    /\ RunTrace[3].at.x = ctx0.x + 1
    /\ ret = Ok(1)
    /\ ctx.x = ctx0.x + 2

\* A succeeded and the fallback closure was not called.
C15_WitnessOk ==
    /\ phase = "ran"
    /\ node.kind = "or_else"
    /\ node.tx = with_ctx([fn |-> "tag_ok", id |-> 1])
    /\ node.f.fn = "leaf_of"
    /\ Len(RunTrace) = 1
    /\ ret = Ok(1)

\* The node ran its wrapped computation and then called its closure once,
\* with v, in the context the wrapped computation left.
CalledOnceWith(v) ==
    /\ OwnCalls = <<Call(node.f, v, Wrapped.st.ctx)>>
    /\ RunTrace = Wrapped.st.trace \o OwnCalls
    /\ ctx = Wrapped.st.ctx

\* The node ran its wrapped computation and did nothing else.
PassedThrough ==
    /\ ret = Wrapped.r
    /\ OwnCalls = <<>>
    /\ RunTrace = Wrapped.st.trace
    /\ ctx = Wrapped.st.ctx

\* C16: a node built with abort(f) never returns success: a success x of the
\* wrapped computation becomes the failure f(x), a failure e stays e and f
\* is not invoked.
C16_AbortAlwaysFails ==
    (phase = "ran" /\ node.kind = "abort") =>
        /\ ~ret.ok
        /\ IF Wrapped.r.ok
           THEN ret = Err(ValFn(node.f, Wrapped.r.v)) /\ CalledOnceWith(Wrapped.r.v)
           ELSE PassedThrough

\* The wrapped computation succeeded with 1 and the run failed with 1 + 10.
C16_Witness ==
    /\ phase = "ran"
    /\ node.kind = "abort"
    /\ node.tx = with_ctx([fn |-> "tag_ok", id |-> 1])
    /\ node.f = [fn |-> "add", id |-> 10]
    /\ ret = Err(11)
    /\ Len(RunTrace) = 2

\* C17: a node built with recover(f) never returns failure: a failure e of
\* the wrapped computation becomes the success f(e), a success x stays x and
\* f is not invoked, so ok(x).recover(f) yields x.
C17_RecoverAlwaysSucceeds ==
    (phase = "ran" /\ node.kind = "recover") =>
        /\ ret.ok
        /\ IF Wrapped.r.ok
           THEN PassedThrough
           ELSE ret = Ok(ValFn(node.f, Wrapped.r.v)) /\ CalledOnceWith(Wrapped.r.v)
        /\ node.tx.kind = "ok" => (ret = Ok(node.tx.ok) /\ RunTrace = <<>>)

\* The wrapped computation failed with 1 and the run succeeded with 1 + 10.
C17_Witness ==
    /\ phase = "ran"
    /\ node.kind = "recover"
    /\ node.tx = with_ctx([fn |-> "tag_err", id |-> 1])
    /\ node.f = [fn |-> "add", id |-> 10]
    /\ ret = Ok(11)
    /\ Len(RunTrace) = 2

\* ok(1).recover(f) has returned 1 without calling f.
C17_WitnessOk ==
    /\ phase = "ran"
    /\ node.kind = "recover"
    /\ node.tx = ok(1)
    /\ ret = Ok(1)
    /\ RunTrace = <<>>

\* C18: when the wrapped computation of try_abort(f) succeeds with x the
\* result is exactly f(x), a success or a failure; when it fails with e the
\* node fails with e and f is not invoked.
C18_TryAbortReturnsFx ==
    (phase = "ran" /\ node.kind = "try_abort") =>
        IF Wrapped.r.ok
        THEN ret = ResFn(node.f, Wrapped.r.v) /\ CalledOnceWith(Wrapped.r.v)
        ELSE PassedThrough

\* f kept the success: the wrapped computation returned 1 and f(1) = Ok(1).
C18_Witness ==
    /\ phase = "ran"
    /\ node.kind = "try_abort"
    /\ node.tx = with_ctx([fn |-> "tag_ok", id |-> 1])
    /\ node.f.fn = "ok_if_odd"
    /\ ret = Ok(1)
    /\ Len(RunTrace) = 2

\* f aborted: the wrapped computation returned 1 and f(1) = Err(11).
C18_WitnessAborted ==
    /\ phase = "ran"
    /\ node.kind = "try_abort"
    /\ node.tx = with_ctx([fn |-> "tag_ok", id |-> 1])
    /\ node.f.fn = "err_add"
    /\ ret = Err(11)

\* C19: when the wrapped computation of try_recover(f) fails with e the
\* result is exactly f(e), a success or a failure; when it succeeds with x
\* the node returns x and f is not invoked.
C19_TryRecoverReturnsFe ==
    (phase = "ran" /\ node.kind = "try_recover") =>
        IF Wrapped.r.ok
        THEN PassedThrough
        ELSE ret = ResFn(node.f, Wrapped.r.v) /\ CalledOnceWith(Wrapped.r.v)

\* f did not recover: the wrapped computation failed with 1 and
\* f(1) = Err(11).
C19_Witness ==
    /\ phase = "ran"
    /\ node.kind = "try_recover"
    /\ node.tx = with_ctx([fn |-> "tag_err", id |-> 1])
    /\ node.f.fn = "err_add"
    /\ ret = Err(11)
    /\ Len(RunTrace) = 2

\* f recovered: the wrapped computation failed with 1 and f(1) = Ok(11).
C19_WitnessRecovered ==
    /\ phase = "ran"
    /\ node.kind = "try_recover"
    /\ node.tx = with_ctx([fn |-> "tag_err", id |-> 1])
    /\ node.f.fn = "ok_add"
    /\ ret = Ok(11)

\* C20: map(f) returns f(x) on a success x and passes a failure through
\* without invoking f, so err(e).map(f) yields e; map_err(f) returns f(e) on
\* a failure e and passes a success through without invoking f.
C20_MapOwnChannelOnly ==
    /\ (phase = "ran" /\ node.kind = "map") =>
          /\ IF Wrapped.r.ok
             THEN ret = Ok(ValFn(node.f, Wrapped.r.v)) /\ CalledOnceWith(Wrapped.r.v)
             ELSE PassedThrough
          /\ node.tx.kind = "err" => (ret = Err(node.tx.err) /\ RunTrace = <<>>)
    /\ (phase = "ran" /\ node.kind = "map_err") =>
          IF Wrapped.r.ok
          THEN PassedThrough
          ELSE ret = Err(ValFn(node.f, Wrapped.r.v)) /\ CalledOnceWith(Wrapped.r.v)

\* map turned the success 1 into 11, or map_err turned the failure 1 into 11.
C20_Witness ==
    /\ phase = "ran"
    /\ node.kind \in {"map", "map_err"}
    /\ node.f = [fn |-> "add", id |-> 10]
    /\ Len(RunTrace) = 2
    /\ \/ node.kind = "map" /\ ret = Ok(11)
       \/ node.kind = "map_err" /\ ret = Err(11)

\* err(1).map(f) has failed with 1 and f was not called.
C20_WitnessErrPassed ==
    /\ phase = "ran"
    /\ node.kind = "map"
    /\ node.tx = err(1)
    /\ node.f = [fn |-> "add", id |-> 10]
    /\ ret = Err(1)
    /\ RunTrace = <<>>

\* map_err left the success 1 alone and f was not called.
C20_WitnessOkPassed ==
    /\ phase = "ran"
    /\ node.kind = "map_err"
    /\ node.tx = with_ctx([fn |-> "tag_ok", id |-> 1])
    /\ ret = Ok(1)
    /\ Len(RunTrace) = 1

LeafKinds == {"ok", "err", "result", "lazy"}

\* C22: the leaves ok, err, result and lazy never read or change the
\* context: a run leaves the context as it was, and ok(v), err(e) and
\* result(r) return the stored outcome on every run.
C22_PureLeavesLeaveContext ==
    (phase = "ran" /\ node.kind \in LeafKinds) =>
        /\ ctx = ctx0
        /\ node.kind = "ok" => (ret = Ok(node.ok) /\ RunTrace = <<>>)
        /\ node.kind = "err" => (ret = Err(node.err) /\ RunTrace = <<>>)
        /\ node.kind = "result" => (ret = node.r /\ RunTrace = <<>>)
        /\ node.kind = "lazy" => (ret = ResFn(node.f, 0) /\ Len(RunTrace) = 1)
        /\ runs >= 2 => ret = prev.ret

\* ok(1) has been run a second time, from a context with x = 2 after one
\* with x = 0, and returned 1 both times leaving x alone.
C22_Witness ==
    /\ phase = "ran"
    /\ runs = 2
    /\ node = ok(1)
    /\ prev.ctx0.x = 0 /\ prev.ctx.x = 0
    /\ ctx0.x = 2 /\ ctx.x = 2
    /\ prev.ret = Ok(1)
    /\ ret = Ok(1)

\* A lazy leaf has been run from a context with x = 2: its closure was
\* called and the context is as it was.
C22_WitnessLazy ==
    /\ phase = "ran"
    /\ node.kind = "lazy"
    /\ node.f.fn = "ok_add"
    /\ ctx0.x = 2 /\ ctx.x = 2
    /\ ret = Ok(10)

BranchKinds == {"branch", "branch3", "branch4"}

\* C23: a branch value built by first, second, third or fourth runs only the
\* computation it holds: its result, its closure invocations and its effect
\* on the context are those of running that computation directly.
C23_BranchRunsWhatItHolds ==
    (phase = "ran" /\ node.kind \in BranchKinds) =>
        /\ ret = Wrapped.r
        /\ RunTrace = Wrapped.st.trace
        /\ ctx = Wrapped.st.ctx

\* The third alternative of a three-way branch, holding inc x then inc y,
\* has run from x = 1: both increments happened once.
C23_Witness ==
    /\ phase = "ran"
    /\ node.kind = "branch3"
    /\ node.tag = "B3"
    /\ node.tx = IncXY
    /\ ctx0 = [x |-> 1, y |-> 0]
    /\ ctx = [x |-> 2, y |-> 1]
    /\ ret = Ok(0)
    /\ Len(RunTrace) = 3

\* C24: boxed() is transparent, and so is a reference: running tx.boxed()
\* or &tx returns the result of tx and leaves the context as tx leaves it,
\* with tx run exactly once.
C24_BoxedIsTransparent ==
    (phase = "ran" /\ node.kind \in {"box", "ref"}) =>
        /\ ret = Wrapped.r
        /\ RunTrace = Wrapped.st.trace
        /\ ctx = Wrapped.st.ctx

\* The boxed inc x then inc y has run from x = 1: both increments happened
\* once and the old y came back.
C24_Witness ==
    /\ phase = "ran"
    /\ node.kind = "box"
    /\ node.tx = IncXY
    /\ ctx0 = [x |-> 1, y |-> 0]
    /\ ctx = [x |-> 2, y |-> 1]
    /\ ret = Ok(0)
    /\ Len(RunTrace) = 3

\* A reference to a failing leaf that writes has run: the error and the
\* write are those of the leaf.
C24_WitnessRef ==
    /\ phase = "ran"
    /\ node.kind = "ref"
    /\ node.tx = with_ctx([fn |-> "tag_err", id |-> 1])
    /\ ret = Err(1)
    /\ ctx.x = ctx0.x + 1
    /\ Len(RunTrace) = 1

\* The computation the standalone functions build from what was handed over:
\* result(r) for a bare Result, join / join3 / join4 of the components of a
\* tuple, in their order.
Explicit ==
    IF "tuple" \in DOMAIN given
    THEN LET t == given.tuple
         IN  CASE Len(t) = 2 -> join(t[1], t[2]).node
               [] Len(t) = 3 -> join3(t[1], t[2], t[3]).node
               [] Len(t) = 4 -> join4(t[1], t[2], t[3], t[4]).node
    ELSE result(given)

\* C25: a bare Result used as a computation runs like result(r), and a
\* tuple of two, three or four computations runs like join, join3 or join4
\* of its components in the same order: same result, same context effects,
\* same error when several fail.
C25_ConversionPreservesBehaviour ==
    (phase = "ran" /\ "kind" \notin DOMAIN given) =>
        LET e == run(Explicit, [ctx |-> ctx0, trace |-> <<>>])
        IN  /\ ret.ok = e.r.ok
            /\ ret.v = e.r.v
            /\ RunTrace = e.st.trace
            /\ ctx = e.st.ctx
            /\ "tuple" \notin DOMAIN given => (ret = given /\ ctx = ctx0)

\* A triple whose first and third components fail after writing has run:
\* all three ran in order and the first error came back.
C25_Witness ==
    /\ phase = "ran"
    /\ given = Tuple(<<with_ctx([fn |-> "tag_err", id |-> 1]),
                       with_ctx([fn |-> "tag_ok", id |-> 2]),
                       with_ctx([fn |-> "tag_err", id |-> 3])>>)
    /\ ret = Err(1)
    /\ Len(RunTrace) = 3
    /\ RunTrace[3].id = 3
    /\ ctx.x = ctx0.x + 3

\* The bare Result Err(1) has run as a computation and returned Err(1).
C25_WitnessResult ==
    /\ phase = "ran"
    /\ given = Err(1)
    /\ node = result(Err(1))
    /\ ret = Err(1)
    /\ ctx = ctx0

\* C26: a run of repeat(n, f) or retry(n, f) invokes f at most n times and
\* returns; a run of loop_fn returns exactly when an iteration yields Break
\* or fails, at that iteration, so a callback that yields Continue for ever
\* makes the run never return.
C26_BoundedUnlessLoopFn ==
    /\ phase = "hung" => node.kind = "loop_fn"
    /\ (phase = "ran" /\ node.kind \in {"repeat", "retry"}) =>
          Len(FCalls(RunTrace)) <= node.n
    /\ (phase \in {"ran", "hung"} /\ node.kind = "loop_fn") =>
          LET its == Iterations(node.f, trace[1].arg, ctx0, MaxIter)
              last == its[Len(its)]
              bodies == SelectSeq(RunTrace, LAMBDA e : e.fn # node.f.fn)
          IN  /\ phase = "ran" <=> (~last.r.ok \/ last.r.v.loop = "Break")
              /\ phase = "ran" => Len(bodies) = Len(its)
              /\ phase = "hung" =>
                    \A i \in 1 .. Len(its) : its[i].r.ok /\ its[i].r.v.loop = "Continue"
              /\ node.f.fn = "forever" =>
                    /\ phase = "hung"
                    /\ \A i \in 1 .. Len(its) :
                         its[i].r = Ok(Continue(its[i].s)) /\ its[i].ctx = its[i].at

\* A loop whose callback always yields Continue, with the same state and an
\* unchanged context, was run and has not returned.
C26_Witness ==
    /\ phase = "hung"
    /\ node.kind = "loop_fn"
    /\ node.f.fn = "forever"
    /\ Len(RunTrace) > MaxIter
    /\ ctx = ctx0

\* retry(3, f) has returned after three failed attempts and three calls of f.
C26_WitnessBounded ==
    /\ phase = "ran"
    /\ node.kind = "retry"
    /\ node.n = 3
    /\ ~ret.ok
    /\ Len(FCalls(RunTrace)) = 3

\* C27: each chainable method of trait Transaction builds, from arguments
\* the standalone function of the same name makes a computation of, a node
\* that runs exactly like the function's: same result, same closure
\* invocations and same final context for every context.
C27_MethodsRunLikeFunctions ==
    "method" \in DOMAIN call =>
      LET F == FunctionNode(call.method, call.self, call.args).node
          byFunction == /\ Satisfies(call.sig, FunctionBound(call.method), call.ty)
                        /\ Satisfies(call.sig, RunBound(call.method), call.ty)
      IN  byFunction =>
            /\ call.accepted
            /\ node = F
            /\ phase = "ran" =>
                  LET o == run(F, [ctx |-> ctx0, trace |-> <<>>])
                  IN  /\ ret = o.r
                      /\ ctx = o.st.ctx
                      /\ RunTrace = o.st.trace

\* C27, what does hold: every method but recover agrees with its function,
\* and recover does where Item and Err are the same type.
C27_AgreeButRecover ==
    ("method" \in DOMAIN call
       /\ (call.method = "recover" => call.ty.item = call.ty.err)) =>
      C27_MethodsRunLikeFunctions

\* self.recover(f) with f : Fn(String) -> i32 on a computation with Item =
\* i32 and Err = String: recover(self, f) is a computation, the method call
\* does not type-check.
C27_WitnessRejected ==
    /\ "method" \in DOMAIN call
    /\ call.method = "recover"
    /\ call.sig = FnType(<<"String">>, <<"i32">>)
    /\ call.ty.err = "String"
    /\ ~call.accepted

\* A method-built try_abort node was run and its closure was called.
C27_WitnessAgree ==
    /\ "method" \in DOMAIN call
    /\ call.method = "try_abort"
    /\ phase = "ran"
    /\ Len(RunTrace) = 2

\* The bodies of the closures handed to with_ctx.
CtxBodies ==
    {"inc_x", "inc_y", "read_xy", "tag_ok", "tag_err", "ok_when_x2",
     "ctr_body", "state_body", "forever_body"}

\* The with_ctx closure an event of the trace is a call of (the limits of a
\* loop body are those of the loop's callback).
BodyOf(e) ==
    IF e.fn \in {"ctr_body", "state_body"}
    THEN [fn |-> e.fn, id |-> e.id, lim |-> node.f.lim,
          bad |-> IF "bad" \in DOMAIN node.f THEN node.f.bad ELSE -1]
    ELSE [fn |-> e.fn, id |-> e.id]

\* The context cx with the effects of the leaf computations among tr[1..n]
\* applied in order, and nothing else.
RECURSIVE CtxAfter(_, _, _)
CtxAfter(tr, n, cx) ==
    IF n = 0 THEN cx
    ELSE LET c == CtxAfter(tr, n - 1, cx)
         IN  IF tr[n].fn \in CtxBodies THEN CtxFn(BodyOf(tr[n]), c).ctx ELSE c

\* C28: no combinator undoes or resets context changes: after a run,
\* successful or failed, the context is the starting context with the
\* effects of exactly the leaf computations that executed, in execution
\* order, and every leaf and closure saw the effects of all leaves executed
\* before it (so failed retry attempts and the repeat iterations before a
\* failing one stay visible).
C28_EffectsAccumulate ==
    phase \in {"ran", "hung"} =>
      /\ ctx = CtxAfter(RunTrace, Len(RunTrace), ctx0)
      /\ \A i \in 1 .. Len(RunTrace) :
            RunTrace[i].at = CtxAfter(RunTrace, i - 1, ctx0)

\* retry succeeded at its third attempt, which saw the writes of the two
\* failed attempts; the context after the run still holds them.
C28_Witness ==
    /\ phase = "ran"
    /\ node.kind = "retry"
    /\ ret.ok
    /\ Len(FCalls(RunTrace)) = 3
    /\ ctx0.x = 0
    /\ FCalls(RunTrace)[3].at.x = 2
    /\ ctx.x = 2

\* repeat failed at its third iteration; the writes of the two iterations
\* before it remain.
C28_WitnessRepeat ==
    /\ phase = "ran"
    /\ node.kind = "repeat"
    /\ ~ret.ok
    /\ Len(FCalls(RunTrace)) = 3
    /\ ctx.x >= ctx0.x + 2

\* or_else ran its fallback after a failure that wrote to the context; the
\* write remains.
C28_WitnessOrElse ==
    /\ phase = "ran"
    /\ node.kind = "or_else"
    /\ Len(RunTrace) = 3
    /\ RunTrace[3].at.x = ctx0.x + 1
    /\ ctx.x = ctx0.x + 2

\* C29: a second run of the same loop_fn node restarts the loop from the
\* initial state given at construction: from a context equal to the first
\* run's starting context it executes the same iterations, the first of them
\* with the initial state, and returns the same result.
C29_LoopRestartsFromInitialState ==
    (phase = "ran" /\ node.kind = "loop_fn" /\ runs >= 2 /\ prev.ctx0 = ctx0) =>
      LET its == Iterations(node.f, trace[1].arg, ctx0, MaxIter)
          bodies == SelectSeq(RunTrace, LAMBDA e : e.fn # node.f.fn)
          before == SelectSeq(prev.trace, LAMBDA e : e.fn # node.f.fn)
      IN  /\ Len(bodies) = Len(its)
          /\ \A k \in 1 .. Len(its) :
                bodies[k].id = its[k].s /\ bodies[k].at = its[k].at
          /\ bodies = before
          /\ FCalls(RunTrace) = FCalls(prev.trace)
          /\ ret.ok = prev.ret.ok
          /\ ret.v = prev.ret.v
          /\ ctx = prev.ctx

\* A loop whose state counts from 0 to its limit 2 was run twice from the
\* same context: each run made the iterations for states 0, 1 and 2 and
\* returned Ok(2), although the first run ended in state 2.
C29_Witness ==
    /\ phase = "ran"
    /\ node.kind = "loop_fn"
    /\ node.f.fn = "step_state"
    /\ runs = 2
    /\ prev.ctx0 = ctx0
    /\ trace[1].arg = 0
    /\ ret = Ok(2)
    /\ prev.ret = Ok(2)
    /\ Len(RunTrace) = 5
    /\ RunTrace[1].id = 0
    /\ RunTrace[5].id = 2

\* C30: with n = 0 neither repeat nor retry invokes f or touches the
\* context, when built or when run: repeat(0, f) succeeds with an empty
\* sequence, retry(0, f) fails with an empty error sequence.
C30_ZeroTimes ==
    (phase \in {"built", "ran"} /\ node.kind \in {"repeat", "retry"} /\ node.n = 0) =>
      /\ trace = <<>>
      /\ phase = "ran" =>
            /\ ctx = ctx0
            /\ ret.v = <<>>
            /\ ret.ok <=> node.kind = "repeat"

\* retry(0, f) was run and failed with no error in the sequence.
C30_Witness ==
    /\ phase = "ran"
    /\ node.kind = "retry"
    /\ node.n = 0
    /\ ret = Err(<<>>)
    /\ RunTrace = <<>>

\* repeat(0, f) was run and succeeded with no item in the sequence.
C30_WitnessRepeat ==
    /\ phase = "ran"
    /\ node.kind = "repeat"
    /\ node.n = 0
    /\ ret = Ok(<<>>)
    /\ RunTrace = <<>>

====
